---- MODULE Spec2Model ----
(***************************************************************************)
(* Reversi engine of src/src/main.rs: the 8x8 board (legality, capture     *)
(* flips, terminal test, evaluation) and the time-bounded alpha-beta       *)
(* search driven by iterative deepening.                                   *)
(***************************************************************************)
EXTENDS Integers, Sequences, FiniteSets

VARIABLES
    cells,    \* the board: cells[row][col]
    pre,      \* the board as the last apply_move call found it
    call,     \* the last apply_move call: piece, row, col
    ret,      \* what that call returned
    game,     \* which of the Games the turn driver plays
    line,     \* how many moves of Line have been played
    on,       \* whether the board is still a position of Line
    off,      \* how many calls were not the next move of Line
    search    \* the last get_best_move call on this board and its result

vars == <<cells, pre, call, ret, game, line, on, off, search>>

\* ------------------------------------------------------------------ Piece

Black == "Black"
White == "White"
None == "None"

Piece == {Black, White}

opponent(piece) == IF piece = Black THEN White ELSE Black

\* ------------------------------------------------------------------ Board

Size == 8

Idx == 0 .. (Size - 1)

new_board ==
    [row \in Idx |-> [col \in Idx |->
        IF (row = 3 /\ col = 3) \/ (row = 4 /\ col = 4) THEN White
        ELSE IF (row = 3 /\ col = 4) \/ (row = 4 /\ col = 3) THEN Black
        ELSE None]]

in_bounds(row, col) == row >= 0 /\ row < Size /\ col >= 0 /\ col < Size

directions ==
    << <<-1, -1>>, <<-1, 0>>, <<-1, 1>>,
       <<0, -1>>,             <<0, 1>>,
       <<1, -1>>,  <<1, 0>>,  <<1, 1>> >>

\* scan_valid with an own disc ending the loop as `return true` whether or not
\* an opponent disc was passed.
RECURSIVE scan_valid_unflagged(_, _, _, _, _, _, _)
scan_valid_unflagged(b, piece, r, c, dx, dy, found_opponent) ==
    IF ~in_bounds(r, c) THEN FALSE
    ELSE IF b[r][c] = opponent(piece)
         THEN scan_valid_unflagged(b, piece, r + dx, c + dy, dx, dy, TRUE)
    ELSE b[r][c] = piece

\* The while loop of is_valid_move along one direction, entered at (r, c):
\* TRUE when the loop reaches `return true`, FALSE when it breaks or leaves
\* the board.
RECURSIVE scan_valid(_, _, _, _, _, _, _)
scan_valid(b, piece, r, c, dx, dy, found_opponent) ==
    IF ~in_bounds(r, c) THEN FALSE
    ELSE IF b[r][c] = opponent(piece)
         THEN scan_valid(b, piece, r + dx, c + dy, dx, dy, TRUE)
    ELSE IF b[r][c] = piece THEN found_opponent
    ELSE FALSE

is_valid_move(b, piece, row, col) ==
    /\ b[row][col] = None
    /\ \E i \in 1 .. Len(directions) :
          scan_valid(b, piece, row + directions[i][1], col + directions[i][2],
                     directions[i][1], directions[i][2], FALSE)

\* The cells in the order of `for row in 0..8 { for col in 0..8 {`.
row_major == [k \in 1 .. Size * Size |-> <<(k - 1) \div Size, (k - 1) % Size>>]

\* valid_moves: the cells pushed, in row-major order.
valid_moves(b, piece) ==
    SelectSeq(row_major,
              LAMBDA rc : b[rc[1]][rc[2]] = None /\ is_valid_move(b, piece, rc[1], rc[2]))

\* flip_all with the captured discs taken off the board.
RECURSIVE flip_all_removing(_, _, _)
flip_all_removing(b, piece, pieces_to_flip) ==
    IF pieces_to_flip = << >> THEN b
    ELSE LET f == Head(pieces_to_flip)
         IN  flip_all_removing([b EXCEPT ![f[1]][f[2]] = None], piece,
                               Tail(pieces_to_flip))

\* for (fr, fc) in pieces_to_flip { cells[fr][fc] = Some(piece) }
RECURSIVE flip_all(_, _, _)
flip_all(b, piece, pieces_to_flip) ==
    IF pieces_to_flip = << >> THEN b
    ELSE LET f == Head(pieces_to_flip)
         IN  flip_all([b EXCEPT ![f[1]][f[2]] = piece], piece, Tail(pieces_to_flip))

\* scan_flip with the collected discs flipped also when the run ends at the
\* edge of the board.
RECURSIVE scan_flip_to_edge(_, _, _, _, _, _, _)
scan_flip_to_edge(b, piece, r, c, dx, dy, pieces_to_flip) ==
    IF ~in_bounds(r, c) THEN flip_all(b, piece, pieces_to_flip)
    ELSE IF b[r][c] = opponent(piece)
         THEN scan_flip_to_edge(b, piece, r + dx, c + dy, dx, dy,
                                Append(pieces_to_flip, <<r, c>>))
    ELSE IF b[r][c] = piece
         THEN IF pieces_to_flip # << >> THEN flip_all(b, piece, pieces_to_flip) ELSE b
    ELSE b

\* The while loop of apply_move along one direction, entered at (r, c) with
\* the discs collected so far; the board it leaves behind.
RECURSIVE scan_flip(_, _, _, _, _, _, _)
scan_flip(b, piece, r, c, dx, dy, pieces_to_flip) ==
    IF ~in_bounds(r, c) THEN b
    ELSE IF b[r][c] = opponent(piece)
         THEN scan_flip(b, piece, r + dx, c + dy, dx, dy,
                        Append(pieces_to_flip, <<r, c>>))
    ELSE IF b[r][c] = piece
         THEN IF pieces_to_flip # << >> THEN flip_all(b, piece, pieces_to_flip) ELSE b
    ELSE b

\* The for loop over the directions from the i-th on, each scanning the board
\* the earlier directions left.
RECURSIVE flip_directions(_, _, _, _, _)
flip_directions(b, piece, row, col, i) ==
    IF i > Len(directions) THEN b
    ELSE flip_directions(
            scan_flip(b, piece, row + directions[i][1], col + directions[i][2],
                      directions[i][1], directions[i][2], << >>),
            piece, row, col, i + 1)

\* apply_move without self.cells[row][col] = Some(piece).
apply_move_unplaced(b, piece, row, col) ==
    IF ~is_valid_move(b, piece, row, col)
    THEN [ok |-> FALSE, board |-> b]
    ELSE [ok |-> TRUE, board |-> flip_directions(b, piece, row, col, 1)]

\* apply_move as the pair of its return value and the board it leaves.
apply_move(b, piece, row, col) ==
    IF ~is_valid_move(b, piece, row, col)
    THEN [ok |-> FALSE, board |-> b]
    ELSE [ok |-> TRUE,
          board |-> flip_directions([b EXCEPT ![row][col] = piece], piece, row, col, 1)]

\* self.cells.iter().flatten().filter(|&&p| p == Some(piece)).count()
count(b, piece) == Len(SelectSeq(row_major, LAMBDA rc : b[rc[1]][rc[2]] = piece))

\* is_game_over as `no empty cell is left`.
is_game_over_when_full(b) ==
    \A row \in Idx, col \in Idx : b[row][col] # None

\* Both players are without a legal move.
is_game_over(b) == valid_moves(b, Black) = << >> /\ valid_moves(b, White) = << >>

corner_bonus == 25

is_corner(row, col) ==
    \/ (row = 0 /\ col = 0)
    \/ (row = 0 /\ col = Size - 1)
    \/ (row = Size - 1 /\ col = 0)
    \/ (row = Size - 1 /\ col = Size - 1)

\* cell_score with no corner penalty for an opponent disc.
cell_score_unpenalised(b, piece, row, col) ==
    IF b[row][col] = piece
    THEN 10 + (IF is_corner(row, col) THEN corner_bonus ELSE 0)
    ELSE IF b[row][col] = opponent(piece) THEN 0 - 10
    ELSE 0

\* What one cell adds to score.
cell_score(b, piece, row, col) ==
    IF b[row][col] = piece
    THEN 10 + (IF is_corner(row, col) THEN corner_bonus ELSE 0)
    ELSE IF b[row][col] = opponent(piece)
    THEN 0 - 10 - (IF is_corner(row, col) THEN corner_bonus ELSE 0)
    ELSE 0

\* for col in 0..8, from `col` on, in one row.
RECURSIVE evaluate_cols(_, _, _, _)
evaluate_cols(b, piece, row, col) ==
    IF col >= Size THEN 0
    ELSE cell_score(b, piece, row, col) + evaluate_cols(b, piece, row, col + 1)

\* for row in 0..8, from `row` on.
RECURSIVE evaluate_rows(_, _, _)
evaluate_rows(b, piece, row) ==
    IF row >= Size THEN 0
    ELSE evaluate_cols(b, piece, row, 0) + evaluate_rows(b, piece, row + 1)

evaluate(b, piece) == evaluate_rows(b, piece, 0)

\* ------------------------------------------------------------------ search

MaxDepth == 3

MaxTime == 5

I32_MIN == -2147483647 - 1

I32_MAX == 2147483647

max(a, b) == IF a >= b THEN a ELSE b

min(a, b) == IF a <= b THEN a ELSE b

\* Time is counted in polls of the clock: the n-th evaluation of
\* start.elapsed() (n = 0, 1, ...) reads n ticks.  Never stands for a
\* time_limit longer than the whole search.
Never == MaxTime + 1

TimeLimits == (0 .. MaxTime) \cup {Never}

\* start.elapsed() >= time_limit, read after `polls` earlier polls.
time_reached(polls, time_limit) == time_limit # Never /\ polls >= time_limit

\* What a search has done so far: polls of the clock, calls of minimax, pass
\* steps, whether a pass step directly followed a pass step, and loops over
\* moves left by `break` with moves still to examine.
NoMeter == [polls |-> 0, nodes |-> 0, passes |-> 0, dpass |-> FALSE, cuts |-> 0]

\* The meter after a `break` at the i-th of n moves.
cut(m, i, n) == IF i < n THEN [m EXCEPT !.cuts = @ + 1] ELSE m

\* prune with the comparison turned round.
prune_reversed(alpha, beta) == alpha <= beta

\* beta <= alpha, the test that ends a layer's loop over its moves.
prune(alpha, beta) == beta <= alpha

\* F(v) with v evaluated once, before F is applied.
Bind(v, F(_)) == CHOOSE out \in {F(x) : x \in {v}} : TRUE

\* minimax, with the meter threaded through: the value returned and the meter
\* after the call.  `passed` says that this call is the recursion of a pass
\* step.  A pass step that would directly follow a pass step is recorded in
\* dpass and not taken (the code would recurse without end there).
RECURSIVE minimax(_, _, _, _, _, _, _, _, _)
RECURSIVE max_loop(_, _, _, _, _, _, _, _, _, _)
RECURSIVE min_loop(_, _, _, _, _, _, _, _, _, _)

\* for (r, c) in moves, from the i-th move on, in a maximizing layer.
max_loop(b, depth, alpha, beta, piece, time_limit, moves, i, max_eval, m) ==
    IF i > Len(moves) THEN [val |-> max_eval, m |-> m]
    ELSE Bind(apply_move(b, piece, moves[i][1], moves[i][2]).board, LAMBDA nb :
         Bind(minimax(nb, depth - 1, alpha, beta, FALSE, piece, time_limit, m, FALSE),
              LAMBDA r :
         Bind(max(max_eval, r.val), LAMBDA max_eval_ :
         Bind(max(alpha, r.val), LAMBDA alpha_ :
            IF prune(alpha_, beta) THEN [val |-> max_eval_, m |-> cut(r.m, i, Len(moves))]
            ELSE max_loop(b, depth, alpha_, beta, piece, time_limit, moves,
                          i + 1, max_eval_, r.m)))))

\* for (r, c) in moves, from the i-th move on, in a minimizing layer.
min_loop(b, depth, alpha, beta, piece, time_limit, moves, i, min_eval, m) ==
    IF i > Len(moves) THEN [val |-> min_eval, m |-> m]
    ELSE Bind(apply_move(b, opponent(piece), moves[i][1], moves[i][2]).board, LAMBDA nb :
         Bind(minimax(nb, depth - 1, alpha, beta, TRUE, piece, time_limit, m, FALSE),
              LAMBDA r :
         Bind(min(min_eval, r.val), LAMBDA min_eval_ :
         Bind(min(beta, r.val), LAMBDA beta_ :
            IF prune(alpha, beta_) THEN [val |-> min_eval_, m |-> cut(r.m, i, Len(moves))]
            ELSE min_loop(b, depth, alpha, beta_, piece, time_limit, moves,
                          i + 1, min_eval_, r.m)))))

minimax(b, depth, alpha, beta, maximizing, piece, time_limit, m, passed) ==
    IF depth = 0 \/ is_game_over(b)
    THEN [val |-> evaluate(b, piece), m |-> [m EXCEPT !.nodes = @ + 1]]
    ELSE IF time_reached(m.polls, time_limit)
    THEN [val |-> evaluate(b, piece),
          m |-> [m EXCEPT !.nodes = @ + 1, !.polls = @ + 1]]
    ELSE Bind(valid_moves(b, IF maximizing THEN piece ELSE opponent(piece)),
              LAMBDA moves :
         Bind([m EXCEPT !.nodes = @ + 1, !.polls = @ + 1], LAMBDA m_ :
            IF moves = << >>
            THEN IF passed
                 THEN [val |-> evaluate(b, piece), m |-> [m_ EXCEPT !.dpass = TRUE]]
                 ELSE minimax(b, depth, alpha, beta, ~maximizing, piece, time_limit,
                              [m_ EXCEPT !.passes = @ + 1], TRUE)
            ELSE IF maximizing
            THEN max_loop(b, depth, alpha, beta, piece, time_limit, moves, 1,
                          I32_MIN, m_)
            ELSE min_loop(b, depth, alpha, beta, piece, time_limit, moves, 1,
                          I32_MAX, m_)))

NoMove == << >>

\* get_best_move's locals: best_move, best_score, the meter, the deepest
\* pass started (depths) and the number of root moves evaluated (evals).
NoResult ==
    [best_move |-> NoMove, best_score |-> I32_MIN, m |-> NoMeter,
     depths |-> 0, evals |-> 0]

\* for &(r, c) in moves.iter(), from the i-th move on, at one depth.
RECURSIVE root_loop(_, _, _, _, _, _, _)
root_loop(b, piece, time_limit, depth, moves, i, acc) ==
    IF i > Len(moves) THEN acc
    ELSE Bind(apply_move(b, piece, moves[i][1], moves[i][2]).board, LAMBDA nb :
         Bind(minimax(nb, depth - 1, I32_MIN, I32_MAX, FALSE, piece, time_limit,
                      acc.m, FALSE),
              LAMBDA r :
         Bind([best_move |-> IF r.val > acc.best_score THEN moves[i] ELSE acc.best_move,
               best_score |-> IF r.val > acc.best_score THEN r.val ELSE acc.best_score,
               m |-> [r.m EXCEPT !.polls = @ + 1],
               depths |-> acc.depths,
               evals |-> acc.evals + 1],
              LAMBDA acc_ :
            IF time_reached(r.m.polls, time_limit) THEN acc_
            ELSE root_loop(b, piece, time_limit, depth, moves, i + 1, acc_))))

\* for depth in 1..=max_depth, from `depth` on.
RECURSIVE depth_loop(_, _, _, _, _, _, _)
depth_loop(b, piece, time_limit, max_depth, moves, depth, acc) ==
    IF depth > max_depth THEN acc
    ELSE Bind(root_loop(b, piece, time_limit, depth, moves, 1,
                        [acc EXCEPT !.depths = depth]),
              LAMBDA a :
         Bind([a EXCEPT !.m.polls = @ + 1], LAMBDA a_ :
            IF time_reached(a.m.polls, time_limit) THEN a_
            ELSE depth_loop(b, piece, time_limit, max_depth, moves, depth + 1, a_)))

get_best_move(b, piece, time_limit, max_depth) ==
    Bind(valid_moves(b, piece), LAMBDA moves :
        IF moves = << >> THEN NoResult
        ELSE depth_loop(b, piece, time_limit, max_depth, moves, 1, NoResult))

\* ------------------------------------------------------------------ game

MaxOff == 1

\* Two games of alternating legal moves, Black first, each leaving Black
\* without a move after its 8th move; the first takes a corner with its 7th.
Games ==
    << << <<Black, 2, 3>>, <<White, 2, 2>>, <<Black, 2, 1>>, <<White, 1, 1>>,
          <<Black, 4, 5>>, <<White, 2, 0>>, <<Black, 0, 0>>, <<White, 0, 2>> >>,
       << <<Black, 2, 3>>, <<White, 2, 2>>, <<Black, 4, 5>>, <<White, 1, 3>>,
          <<Black, 0, 3>>, <<White, 0, 4>>, <<Black, 1, 1>>, <<White, 0, 2>> >> >>

\* The game being played.
Line == Games[game]

NoCall == [piece |-> None, row |-> 0, col |-> 0]

NoSearch ==
    [piece |-> None, time_limit |-> 0, max_depth |-> 0, best_move |-> NoMove,
     best_score |-> I32_MIN, polls |-> 0, nodes |-> 0, passes |-> 0,
     dpass |-> FALSE, cuts |-> 0, depths |-> 0, evals |-> 0]

Init ==
    /\ cells = new_board
    /\ pre = new_board
    /\ call = NoCall
    /\ ret = FALSE
    /\ game \in 1 .. Len(Games)
    /\ line = 0
    /\ on = TRUE
    /\ off = 0
    /\ search = NoSearch

IsNextOfLine(piece, row, col) ==
    on /\ line < Len(Line) /\ Line[line + 1] = <<piece, row, col>>

\* board.apply_move(piece, row, col), by whoever holds the board.
ApplyMove(piece, row, col) ==
    \E res \in {apply_move(cells, piece, row, col)} :
    \E next \in {res.ok /\ IsNextOfLine(piece, row, col)} :
        /\ next \/ off < MaxOff
        /\ cells' = res.board
        /\ pre' = cells
        /\ call' = [piece |-> piece, row |-> row, col |-> col]
        /\ ret' = res.ok
        /\ line' = IF next THEN line + 1 ELSE line
        /\ on' = (on /\ (next \/ ~res.ok))
        /\ off' = IF next THEN off ELSE off + 1
        /\ search' = NoSearch
        /\ UNCHANGED game

Next == \E piece \in Piece, row \in Idx, col \in Idx : ApplyMove(piece, row, col)

Spec == Init /\ [][Next]_vars

\* The next move of Line, applied by the turn driver.
PlayLine ==
    /\ on /\ line < Len(Line)
    /\ ApplyMove(Line[line + 1][1], Line[line + 1][2], Line[line + 1][3])

\* get_best_move(&board, piece, time_limit, max_depth) on the current board.
GetBestMove(piece, time_limit, max_depth) ==
    /\ search = NoSearch
    /\ \E res \in {get_best_move(cells, piece, time_limit, max_depth)} :
          search' = [piece |-> piece, time_limit |-> time_limit,
                     max_depth |-> max_depth, best_move |-> res.best_move,
                     best_score |-> res.best_score,
                     polls |-> res.m.polls, nodes |-> res.m.nodes,
                     passes |-> res.m.passes, dpass |-> res.m.dpass,
                     cuts |-> res.m.cuts,
                     depths |-> res.depths, evals |-> res.evals]
    /\ UNCHANGED <<cells, pre, call, ret, game, line, on, off>>

NextSearch ==
    \/ PlayLine
    \/ \E piece \in Piece, time_limit \in TimeLimits, max_depth \in 0 .. MaxDepth :
          GetBestMove(piece, time_limit, max_depth)

SpecSearch == Init /\ [][NextSearch]_vars

\* ------------------------------------------------------------------ the board's properties

Called == call.piece # None

\* The cell n steps from (row, col) in the i-th direction.
Step(row, col, i, n) == <<row + n * directions[i][1], col + n * directions[i][2]>>

\* The opponent discs that `piece`, placed at (row, col) of board b, brackets in
\* the i-th direction: the cells 1..n steps away, all the opponent's, with a
\* disc of `piece` n+1 steps away.
Run(b, piece, row, col, i) ==
    LET at(n) == Step(row, col, i, n)
        ends == {n \in 1 .. Size - 2 :
                    /\ in_bounds(at(n + 1)[1], at(n + 1)[2])
                    /\ b[at(n + 1)[1]][at(n + 1)[2]] = piece
                    /\ \A k \in 1 .. n : b[at(k)[1]][at(k)[2]] = opponent(piece)}
    IN  {at(k) : k \in {k \in 1 .. Size - 2 : \E n \in ends : k <= n}}

Runs(b, piece, row, col) ==
    UNION {Run(b, piece, row, col, i) : i \in 1 .. Len(directions)}

\* The rule of the game: the target cell is empty and some direction holds a
\* run of opponent discs ended by a disc of the mover.
Legal(b, piece, row, col) ==
    b[row][col] = None /\ Runs(b, piece, row, col) # {}

Discs(b) == count(b, Black) + count(b, White)

\* C1: an illegal apply_move (target occupied, or no direction with an opponent
\* run ended by a disc of the mover) returns false and leaves all 64 cells as
\* they were.
C1_IllegalMoveRejected ==
    (Called /\ ~Legal(pre, call.piece, call.row, call.col))
        => (ret = FALSE /\ cells = pre)

\* An illegal call on an empty cell next to a disc has been made.
C1_Witness ==
    /\ Called
    /\ ~Legal(pre, call.piece, call.row, call.col)
    /\ pre[call.row][call.col] = None
    /\ \E i \in 1 .. Len(directions) :
          LET s == Step(call.row, call.col, i, 1)
          IN  in_bounds(s[1], s[2]) /\ pre[s[1]][s[2]] # None
    /\ ret = FALSE

\* C2: a successful apply_move raises count(Black) + count(White) by exactly 1.
C2_OneMoreDisc ==
    (Called /\ ret) => Discs(cells) = Discs(pre) + 1

\* A successful move that flipped at least two discs.
C2_Witness ==
    /\ Called /\ ret
    /\ count(cells, call.piece) >= count(pre, call.piece) + 3

\* C3: over any sequence of apply_move calls a cell that is occupied never
\* becomes empty again.
C3_NeverEmptied ==
    [][\A row \in Idx, col \in Idx :
          cells[row][col] # None => cells'[row][col] # None]_vars

\* A successful move has changed the owner of an occupied cell.
C3_Witness ==
    /\ Called /\ ret
    /\ \E row \in Idx, col \in Idx :
          pre[row][col] # None /\ cells[row][col] # pre[row][col]

Own(b, piece) == {rc \in Idx \X Idx : b[rc[1]][rc[2]] = piece}

Corners == {rc \in Idx \X Idx : is_corner(rc[1], rc[2])}

\* C8: on every board reached, evaluate(s) = -evaluate(opponent(s)), and
\* evaluate is +10 per own disc, -10 per opponent disc, and a further +25 / -25
\* for a disc on a corner.
C8_EvaluateAntisymmetric ==
    \A s \in Piece :
        /\ evaluate(cells, s) = 0 - evaluate(cells, opponent(s))
        /\ evaluate(cells, s) =
              10 * (Cardinality(Own(cells, s)) - Cardinality(Own(cells, opponent(s))))
              + 25 * (Cardinality(Own(cells, s) \cap Corners)
                      - Cardinality(Own(cells, opponent(s)) \cap Corners))

\* A board with a disc on a corner and unequal disc counts.
C8_Witness ==
    /\ \E rc \in Corners : cells[rc[1]][rc[2]] # None
    /\ count(cells, Black) # count(cells, White)

\* C9: after a successful apply_move(side, r, c) the cells that differ from the
\* board before are exactly (r, c), now holding side, and the runs bracketed in
\* the 8 directions on the board before; at least one disc is flipped.
C9_ExactlyTheRunsFlip ==
    (Called /\ ret) =>
        LET runs == Runs(pre, call.piece, call.row, call.col)
        IN  /\ pre[call.row][call.col] = None
            /\ runs # {}
            /\ \A row \in Idx, col \in Idx :
                  cells[row][col] =
                      IF (row = call.row /\ col = call.col) \/ <<row, col>> \in runs
                      THEN call.piece
                      ELSE pre[row][col]
            /\ {rc \in Idx \X Idx : cells[rc[1]][rc[2]] # pre[rc[1]][rc[2]]}
                  = runs \cup {<<call.row, call.col>>}

\* A successful move that bracketed runs in two directions.
C9_Witness ==
    /\ Called /\ ret
    /\ \E i, j \in 1 .. Len(directions) :
          /\ i # j
          /\ Run(pre, call.piece, call.row, call.col, i) # {}
          /\ Run(pre, call.piece, call.row, call.col, j) # {}

\* ------------------------------------------------------------------ the search's properties

Searched == search.piece # None

Unhurried == Searched /\ search.time_limit = Never

Maximum(S) == CHOOSE x \in S : \A y \in S : x >= y

Minimum(S) == CHOOSE x \in S : \A y \in S : x <= y

\* Plain minimax without alpha, beta or a deadline: the value of board b for
\* `piece`, `depth` plies deep, with the pass rule and the cutoffs of minimax.
RECURSIVE FullValue(_, _, _, _)
FullValue(b, depth, maximizing, piece) ==
    IF depth = 0 \/ is_game_over(b) THEN evaluate(b, piece)
    ELSE Bind(valid_moves(b, IF maximizing THEN piece ELSE opponent(piece)),
              LAMBDA moves :
            IF moves = << >> THEN FullValue(b, depth, ~maximizing, piece)
            ELSE Bind({FullValue(apply_move(b, IF maximizing THEN piece
                                               ELSE opponent(piece),
                                            moves[i][1], moves[i][2]).board,
                                 depth - 1, ~maximizing, piece) :
                         i \in 1 .. Len(moves)},
                      LAMBDA vals :
                    IF maximizing THEN Maximum(vals) ELSE Minimum(vals)))

\* The first of the triples <<depth, index of the move, score>> with the
\* highest score, in the order of the passes and, in a pass, of the moves.
FirstBest(S) ==
    CHOOSE t \in S :
        \A u \in S :
            \/ t[3] > u[3]
            \/ t[3] = u[3] /\ (t[1] < u[1] \/ (t[1] = u[1] /\ t[2] <= u[2]))

\* The move the driver of get_best_move returns when every root move of every
\* pass 1..max_depth is scored by plain minimax.
FullBest(b, piece, max_depth) ==
    Bind(valid_moves(b, piece), LAMBDA moves :
        IF moves = << >> \/ max_depth = 0 THEN NoMove
        ELSE Bind({<<d, i, FullValue(apply_move(b, piece, moves[i][1],
                                                moves[i][2]).board,
                                     d - 1, FALSE, piece)>> :
                     d \in 1 .. max_depth, i \in 1 .. Len(moves)},
                  LAMBDA S : moves[FirstBest(S)[2]]))

\* The highest-scoring root move of the pass at `depth` alone, the first in
\* row-major order among equal scores, scored by minimax as the pass does.
DeepestBest(b, piece, depth) ==
    Bind(valid_moves(b, piece), LAMBDA moves :
        Bind({<<depth, i, minimax(apply_move(b, piece, moves[i][1],
                                             moves[i][2]).board,
                                  depth - 1, I32_MIN, I32_MAX, FALSE, piece,
                                  Never, NoMeter, FALSE).val>> :
                i \in 1 .. Len(moves)},
             LAMBDA S : moves[FirstBest(S)[2]]))

\* C4: get_best_move returns None if and only if the side has no legal move,
\* for every board, side, time_limit and max_depth.
C4_NoneIffNoMoves ==
    Searched =>
        (search.best_move = NoMove <=> valid_moves(cells, search.piece) = << >>)

\* With max_depth >= 1 the result is None exactly when the side has no legal
\* move, and otherwise a legal move, a root move having been evaluated.
BestMoveWhenDepthPositive ==
    (Searched /\ search.max_depth >= 1) =>
        LET moves == valid_moves(cells, search.piece)
        IN  /\ search.best_move = NoMove <=> moves = << >>
            /\ moves # << >> =>
                  /\ search.evals >= 1
                  /\ \E i \in 1 .. Len(moves) : moves[i] = search.best_move

\* C5: with the time limit never reached, the move get_best_move returns with
\* alpha-beta pruning is the move the same driver returns with plain minimax.
C5_PruningKeepsTheMove ==
    Unhurried => search.best_move = FullBest(cells, search.piece, search.max_depth)

\* A search that was never hurried left a loop over moves early, and returned
\* a move.
C5_Witness ==
    Unhurried /\ search.cuts > 0 /\ search.best_move # NoMove

\* C6: when the passes for depths 1..d all complete, the move returned is the
\* highest-scoring root move of the depth-d pass.
C6_DeepestPassDecides ==
    (Unhurried /\ search.max_depth >= 1 /\ valid_moves(cells, search.piece) # << >>)
        => search.best_move = DeepestBest(cells, search.piece, search.max_depth)

\* C7: with time_limit = 0, get_best_move returns None when the side has no
\* legal move and otherwise a move found at depth 1; it starts no depth-2 pass
\* and evaluates a bounded number of root moves, whatever max_depth is.
C7_ZeroTimeLimit ==
    (Searched /\ search.time_limit = 0) =>
        LET moves == valid_moves(cells, search.piece)
        IN  /\ moves = << >> => search.best_move = NoMove
            /\ moves # << >> =>
                  /\ \E i \in 1 .. Len(moves) : moves[i] = search.best_move
                  /\ search.depths = 1
            /\ search.depths <= 1
            /\ search.evals <= 1
            /\ search.nodes <= 1

\* With time_limit = 0 and max_depth >= 1 the first legal move is returned
\* after one root evaluation at depth 1.
ZeroTimeLimitWhenDepthPositive ==
    (Searched /\ search.time_limit = 0 /\ search.max_depth >= 1) =>
        LET moves == valid_moves(cells, search.piece)
        IN  /\ moves = << >> => search.best_move = NoMove /\ search.evals = 0
            /\ moves # << >> =>
                  /\ search.best_move = moves[1]
                  /\ search.depths = 1
                  /\ search.evals = 1
                  /\ search.nodes = 1

\* C10: in no call of minimax does a pass step directly follow a pass step: a
\* board where neither side can move is cut off as terminal first.
C10_NoPassAfterPass ==
    Searched => search.dpass = FALSE

\* A search that was never hurried took a pass step.
C10_Witness ==
    Unhurried /\ search.passes > 0

====
